---- MODULE Spec2Model ----
(***************************************************************************)
(* Analog-day rain estimator of dashboard.py: predict_next_2_days and the  *)
(* selection / verification logic of the index route.                      *)
(*                                                                         *)
(* A table (df_loc) is a sequence of runs ordered by Date: a run is n rows *)
(* on the consecutive dates Date .. Date + n - 1 whose other cells are     *)
(* equal.  No mask of the code reads Date, so a mask selects whole runs    *)
(* and is the set of the positions of the runs it selects.  A feature is   *)
(* <<v>> when observed and <<>> when it is NaN.  Feature values are whole  *)
(* numbers, so every mean is an exact fraction [num, den]; 0/0 is the NaN  *)
(* pandas returns for the mean of an empty column.  With whole-number      *)
(* features a float mean is never within rounding distance of a window     *)
(* edge or of the 50 threshold unless it is exactly on it, so the exact    *)
(* comparisons below decide as the float comparisons of the code do.       *)
(* The RainToday column holds 'Yes' or 'No' (the cleaned data set).        *)
(***************************************************************************)
EXTENDS Integers, Sequences, FiniteSets, TLC

VARIABLES df_loc, op, sel_date, current_day, frame, preds, display, outcome, memo, calls, limit

vars == <<df_loc, op, sel_date, current_day, frame, preds, display, outcome, memo, calls, limit>>

----------------------------------------------------------------------------
(* Literals of predict_next_2_days and index. *)
MinSamples == 10
MaxConfidence == 100
FallbackConf1 == 30
FallbackConf2 == 25
SunTight == 3
HumTight == 15
CldTight == 2
SunBroad == 6
HumBroad == 30
CldBroad == 3
SunDay2 == 4
HumDay2 == 20
CldDay2 == 3
RainThreshold == 50

(* Lengths of the runs the tables are built from, and the number of calls *)
(* of a behaviour of repeated calls.                                      *)
Single == 1
Pair == 2
Few == 3
Pad == 8
MaxRepeatCalls == 3

----------------------------------------------------------------------------
(* Values: NaN, fractions. *)
NaN == <<>>

notnull(x) == x # NaN

(* float(x) if pd.notnull(x) else 0.0 *)
FillZero(x) == IF notnull(x) THEN x[1] ELSE 0

Frac(n, d) == [num |-> n, den |-> d]

IsNaN(p) == p.den = 0

(* p > k, p >= k, p = q for fractions; every comparison with NaN is false *)
FracGT(p, k) == p.den > 0 /\ p.num > k * p.den

FracGE(p, k) == p.den > 0 /\ p.num >= k * p.den

FracEq(p, q) == p.den > 0 /\ q.den > 0 /\ p.num * q.den = q.num * p.den

(* Series.between(c - w, c + w), inclusive on both sides, false on NaN;  *)
(* the centre c is a fraction                                            *)
between(x, c, w) ==
    /\ notnull(x)
    /\ c.den > 0
    /\ x[1] * c.den >= c.num - w * c.den
    /\ x[1] * c.den <= c.num + w * c.den

----------------------------------------------------------------------------
(* Columns and aggregates over a set of run positions. *)
Runs(df) == 1..Len(df)

(* a cell of a row that holds a number: the 0/1 label or an observed feature *)
Cell(r, col) == IF col = "RainTomorrow_Binary" THEN r[col] ELSE r[col][1]

(* len(df[S]) *)
RECURSIVE CountUpTo(_, _, _)
CountUpTo(df, S, i) ==
    IF i = 0 THEN 0
    ELSE (IF i \in S THEN df[i].n ELSE 0) + CountUpTo(df, S, i - 1)

Count(df, S) == CountUpTo(df, S, Len(df))

(* df[S][col].sum() *)
RECURSIVE SumUpTo(_, _, _, _)
SumUpTo(df, S, col, i) ==
    IF i = 0 THEN 0
    ELSE (IF i \in S THEN df[i].n * Cell(df[i], col) ELSE 0) + SumUpTo(df, S, col, i - 1)

ColSum(df, S, col) == SumUpTo(df, S, col, Len(df))

(* df[S][col].mean(), no row of S being NaN in col *)
Mean(df, S, col) == Frac(ColSum(df, S, col), Count(df, S))

(* df[S]['RainTomorrow_Binary'].mean() * 100 *)
RainRate(df, S) == Frac(100 * ColSum(df, S, "RainTomorrow_Binary"), Count(df, S))

----------------------------------------------------------------------------
(* predict_next_2_days *)

(* a boolean mask as the set of positions it selects *)
Mask(df, s, h, c, ws, wh, wc, rt) ==
    { i \in Runs(df) :
        /\ between(df[i].Sunshine, s, ws)
        /\ between(df[i].Humidity3pm, h, wh)
        /\ between(df[i].Cloud3pm, c, wc)
        /\ df[i].RainToday_Binary = rt }

mask1(df, sun, hum, cld, rt) ==
    Mask(df, Frac(sun, 1), Frac(hum, 1), Frac(cld, 1), SunTight, HumTight, CldTight, rt)

mask1_broad(df, sun, hum, cld, rt) ==
    Mask(df, Frac(sun, 1), Frac(hum, 1), Frac(cld, 1), SunBroad, HumBroad, CldBroad, rt)

(* matches1 variants: the broad mask whatever the tight one holds; no *)
(* broad retry                                                       *)
matches1_always_broad(df, sun, hum, cld, rt) == mask1_broad(df, sun, hum, cld, rt)

matches1_tight_only(df, sun, hum, cld, rt) == mask1(df, sun, hum, cld, rt)

(* matches1 after the optional broad retry *)
matches1(df, sun, hum, cld, rt) ==
    LET tight == mask1(df, sun, hum, cld, rt)
    IN  IF Count(df, tight) < MinSamples
        THEN mask1_broad(df, sun, hum, cld, rt)
        ELSE tight

(* the masks a call evaluates for day 1 and for day 2, in order *)
searched1(df, sun, hum, cld, rt) ==
    IF Count(df, mask1(df, sun, hum, cld, rt)) < MinSamples
    THEN <<"mask1", "mask1_broad">>
    ELSE <<"mask1">>

searched2 == <<"mask2">>

Min(a, b) == IF a < b THEN a ELSE b

(* day1 variant: the fallback averages the few matches when there are any *)
day1_few_matches(df, m1) ==
    IF Count(df, m1) < MinSamples
    THEN [prob |-> RainRate(df, IF m1 # {} THEN m1 ELSE Runs(df)), conf |-> FallbackConf1]
    ELSE [prob |-> RainRate(df, m1), conf |-> Min(Count(df, m1), MaxConfidence)]

day1(df, m1) ==
    IF Count(df, m1) < MinSamples
    THEN [prob |-> RainRate(df, Runs(df)), conf |-> FallbackConf1]
    ELSE [prob |-> RainRate(df, m1), conf |-> Min(Count(df, m1), MaxConfidence)]

(* day1_outcome variant: a probability of exactly 50 commits to rain *)
day1_outcome_inclusive(prob1) == IF FracGE(prob1, RainThreshold) THEN 1 ELSE 0

day1_outcome(prob1) == IF FracGT(prob1, RainThreshold) THEN 1 ELSE 0

(* est_tom variants: the anchor's own values whatever matched; the anchor's *)
(* own values unless a tier qualified                                      *)
est_tom_anchor(df, m1, sun, hum, cld) ==
    [sun |-> Frac(sun, 1), hum |-> Frac(hum, 1), cld |-> Frac(cld, 1)]

est_tom_qualified_only(df, m1, sun, hum, cld) ==
    IF Count(df, m1) >= MinSamples
    THEN [sun |-> Mean(df, m1, "Sunshine"),
          hum |-> Mean(df, m1, "Humidity3pm"),
          cld |-> Mean(df, m1, "Cloud3pm")]
    ELSE [sun |-> Frac(sun, 1), hum |-> Frac(hum, 1), cld |-> Frac(cld, 1)]

(* est_sun_tom, est_hum_tom, est_cld_tom *)
est_tom(df, m1, sun, hum, cld) ==
    IF m1 # {}
    THEN [sun |-> Mean(df, m1, "Sunshine"),
          hum |-> Mean(df, m1, "Humidity3pm"),
          cld |-> Mean(df, m1, "Cloud3pm")]
    ELSE [sun |-> Frac(sun, 1), hum |-> Frac(hum, 1), cld |-> Frac(cld, 1)]

(* variant: mask2 evaluated on matches1 *)
searched_rows2_matches1(df, m1) == m1

(* the rows mask2 is evaluated on: df_loc, whatever matches1 holds *)
searched_rows2(df, m1) == Runs(df)

(* mask2 variant: a missing feature of a row is matched as 0 *)
mask2_fillna(df, est, outcome1) ==
    { i \in Runs(df) :
        /\ between(<<FillZero(df[i].Sunshine)>>, est.sun, SunDay2)
        /\ between(<<FillZero(df[i].Humidity3pm)>>, est.hum, HumDay2)
        /\ between(<<FillZero(df[i].Cloud3pm)>>, est.cld, CldDay2)
        /\ df[i].RainToday_Binary = outcome1 }

(* mask2 variant: the cloud window of the tight tier *)
mask2_tight_cloud(df, est, outcome1) ==
    Mask(df, est.sun, est.hum, est.cld, SunDay2, HumDay2, CldTight, outcome1)

mask2(df, est, outcome1) ==
    Mask(df, est.sun, est.hum, est.cld, SunDay2, HumDay2, CldDay2, outcome1)

(* day2 variants: no cap on the confidence; the fallback confidence of day 1 *)
day2_uncapped(df, m2) ==
    IF Count(df, m2) < MinSamples
    THEN [prob |-> RainRate(df, Runs(df)), conf |-> FallbackConf2]
    ELSE [prob |-> RainRate(df, m2), conf |-> Count(df, m2)]

day2_conf_of_day1(df, m2) ==
    IF Count(df, m2) < MinSamples
    THEN [prob |-> RainRate(df, Runs(df)), conf |-> FallbackConf1]
    ELSE [prob |-> RainRate(df, m2), conf |-> Min(Count(df, m2), MaxConfidence)]

day2(df, m2) ==
    IF Count(df, m2) < MinSamples
    THEN [prob |-> RainRate(df, Runs(df)), conf |-> FallbackConf2]
    ELSE [prob |-> RainRate(df, m2), conf |-> Min(Count(df, m2), MaxConfidence)]

(* the locals of one call at its return statement *)
Locals(df, row) ==
    LET sun == FillZero(row.Sunshine)
        hum == FillZero(row.Humidity3pm)
        cld == FillZero(row.Cloud3pm)
        rt  == row.RainToday_Binary
        m1  == matches1(df, sun, hum, cld, rt)
        d1  == day1(df, m1)
        o1  == day1_outcome(d1.prob)
        est == est_tom(df, m1, sun, hum, cld)
        m2  == mask2(df, est, o1) \cap searched_rows2(df, m1)
    IN  [sun |-> sun, hum |-> hum, cld |-> cld, rt |-> rt,
         searched1 |-> searched1(df, sun, hum, cld, rt),
         matches1 |-> m1, day1 |-> d1, day1_outcome |-> o1,
         est |-> est, searched2 |-> searched2,
         matches2 |-> m2, day2 |-> day2(df, m2)]

predict_next_2_days(f) == [day1 |-> f.day1, day2 |-> f.day2]

(* variant: the call fills the missing features of the table with 0 in place *)
TableAfterPredict_fillna(df) ==
    [i \in DOMAIN df |->
        [df[i] EXCEPT !.Sunshine = <<FillZero(@)>>,
                      !.Humidity3pm = <<FillZero(@)>>,
                      !.Cloud3pm = <<FillZero(@)>>]]

(* what a call leaves in the caller's table: the function only reads it *)
TableAfterPredict(df) == df

----------------------------------------------------------------------------
(* The tables.  load_data derives RainToday_Binary from RainToday and     *)
(* sorts by Date.  A table has one run per kind of row, in the order of   *)
(* the kinds, and one date without a row after every run.                 *)
Row(d, s, h, c, today, rtom) ==
    [Date |-> d, Sunshine |-> s, Humidity3pm |-> h, Cloud3pm |-> c,
     RainToday |-> today, RainToday_Binary |-> IF today = "Yes" THEN 1 ELSE 0,
     RainTomorrow_Binary |-> rtom]

Kind(k, d) ==
    CASE k = 1 -> Row(d, <<8>>, <<50>>, <<4>>, "No", 1)
      [] k = 2 -> Row(d, <<11>>, <<65>>, <<6>>, "No", 0)
      [] k = 3 -> Row(d, <<14>>, <<80>>, <<7>>, "No", 1)
      [] k = 4 -> Row(d, <<8>>, <<50>>, <<4>>, "Yes", 1)
      [] k = 5 -> Row(d, NaN, <<0>>, <<0>>, "No", 1)
      [] k = 6 -> Row(d, <<0>>, <<0>>, <<0>>, "No", 0)
      [] k = 7 -> Row(d, <<11>>, <<65>>, <<3>>, "No", 1)

Sizes ==
    << {0, Single, MinSamples - 1},
       {0, Few, MinSamples},
       {0, Pad, MinSamples},
       {0, MinSamples, MaxConfidence + 1},
       {0, Pair},
       {0, Few, Pad},
       {0, Few} >>

NKinds == Len(Sizes)

Run(r, n) == r @@ [n |-> n]

RECURSIVE Build(_, _, _)
Build(n, k, d) ==
    IF k > NKinds THEN <<>>
    ELSE IF n[k] = 0 THEN Build(n, k + 1, d)
    ELSE <<Run(Kind(k, d), n[k])>> \o Build(n, k + 1, d + n[k] + 1)

(* the row of run i dated d *)
RowOf(df, i, d) == [c \in DOMAIN Kind(1, 0) |-> IF c = "Date" THEN d ELSE df[i][c]]

LastDate(r) == r.Date + r.n - 1

(* the dates a request selects: before the table, the first and the last *)
(* date of every run, and the date without a row after it                *)
Dates(df) ==
    {0} \cup { df[i].Date : i \in Runs(df) }
        \cup { LastDate(df[i]) : i \in Runs(df) }
        \cup { LastDate(df[i]) + 1 : i \in Runs(df) }

(* the rows a direct call passes as the current day *)
Anchors == { Kind(k, 0) : k \in 1..NKinds }

----------------------------------------------------------------------------
(* index: selection, prediction, verification *)
Max(S) == CHOOSE x \in S : \A y \in S : y <= x

(* df_loc[df_loc['Date'] <= sel_date].last_valid_index(): the run and the *)
(* date of the last row on or before the date; run 0 stands for None      *)
current_idx(df, date) ==
    LET past == { i \in Runs(df) : df[i].Date <= date }
    IN  IF past = {} THEN [run |-> 0, date |-> 0]
        ELSE [run |-> Max(past), date |-> Min(date, LastDate(df[Max(past)]))]

(* Check variant: the threshold is strict, as in day1_outcome *)
Check_strict(df, d, prob) ==
    LET row_d == { i \in 1..Len(df) : df[i].Date <= d /\ d <= df[i].Date + df[i].n - 1 }
    IN  IF row_d = {}
        THEN [res |-> FALSE, cls |-> "result-future"]
        ELSE LET actual == df[CHOOSE i \in row_d : TRUE].RainToday
                 pred_bool == FracGT(prob, RainThreshold)
                 act_bool == (actual = "Yes")
             IN  [res |-> TRUE,
                  cls |-> IF pred_bool = act_bool THEN "result-correct" ELSE "result-wrong"]

(* the result box of one forecast day: the row dated d, if any, and the *)
(* comparison of the thresholded probability with its RainToday         *)
Check(df, d, prob) ==
    LET row_d == { i \in Runs(df) : df[i].Date <= d /\ d <= LastDate(df[i]) }
    IN  IF row_d = {}
        THEN [res |-> FALSE, cls |-> "result-future"]
        ELSE LET actual == df[CHOOSE i \in row_d : TRUE].RainToday
                 pred_bool == FracGE(prob, RainThreshold)
                 act_bool == (actual = "Yes")
             IN  [res |-> TRUE,
                  cls |-> IF pred_bool = act_bool THEN "result-correct" ELSE "result-wrong"]

display_info(df, date, p) ==
    [day1 |-> Check(df, date + 1, p.day1.prob),
     day2 |-> Check(df, date + 2, p.day2.prob)]

None == "none"

(* a table and the number of calls that will be made on it *)
Start(n, calls_to_make) ==
    /\ df_loc = Build(n, 1, 1)
    /\ op = None
    /\ sel_date = None
    /\ current_day = None
    /\ frame = None
    /\ preds = None
    /\ display = None
    /\ outcome = None
    /\ memo = <<>>
    /\ calls = 0
    /\ limit = calls_to_make

(* the first successful call is remembered, with whether a call for *)
(* another row has been made since                                  *)
Remember ==
    IF outcome' # "ok" THEN memo
    ELSE IF memo = <<>> THEN <<[row |-> current_day', preds |-> preds', mixed |-> FALSE]>>
    ELSE <<[memo[1] EXCEPT !.mixed = @ \/ current_day' # memo[1].row]>>

MayCall == calls < limit

Called ==
    /\ calls' = calls + 1
    /\ memo' = Remember
    /\ UNCHANGED limit

(* GET / on a location without rows: iloc[0] and then iloc[-1] raise *)
IndexEmpty(date) ==
    /\ MayCall
    /\ df_loc = <<>>
    /\ op' = "index"
    /\ sel_date' = date
    /\ outcome' = "IndexError"
    /\ current_day' = None
    /\ frame' = None
    /\ preds' = None
    /\ display' = None
    /\ UNCHANGED df_loc
    /\ Called

(* GET / with a date *)
Index(date) ==
    /\ MayCall
    /\ df_loc # <<>>
    /\ LET idx == current_idx(df_loc, date)
           row == IF idx.run = 0 THEN RowOf(df_loc, 1, df_loc[1].Date)
                                 ELSE RowOf(df_loc, idx.run, idx.date)
           sel == IF idx.run = 0 THEN row.Date ELSE date
       IN  /\ op' = "index"
           /\ sel_date' = sel
           /\ current_day' = row
           /\ frame' = Locals(df_loc, row)
           /\ preds' = predict_next_2_days(frame')
           /\ display' = display_info(df_loc, sel, preds')
           /\ outcome' = "ok"
           /\ df_loc' = TableAfterPredict(df_loc)
    /\ Called

(* a direct call of predict_next_2_days(df_loc, row) *)
Predict(row) ==
    /\ MayCall
    /\ op' = "predict"
    /\ current_day' = row
    /\ frame' = Locals(df_loc, row)
    /\ preds' = predict_next_2_days(frame')
    /\ outcome' = "ok"
    /\ df_loc' = TableAfterPredict(df_loc)
    /\ sel_date' = None
    /\ display' = None
    /\ Called

Next ==
    \/ \E date \in Dates(df_loc) : IndexEmpty(date)
    \/ \E date \in Dates(df_loc) : Index(date)
    \/ \E row \in Anchors : Predict(row)

(* one request or one direct call on each table *)
Init ==
    \E n1 \in Sizes[1], n2 \in Sizes[2], n3 \in Sizes[3], n4 \in Sizes[4],
       n5 \in Sizes[5], n6 \in Sizes[6], n7 \in Sizes[7] :
       Start(<<n1, n2, n3, n4, n5, n6, n7>>, 1)

Spec == Init /\ [][Next]_vars

(* repeated calls on one table *)
SizesRepeat ==
    << {0, MinSamples - 1}, {0, Few}, {0, Pad}, {0}, {0, Pair}, {0, Pad}, {0} >>

InitRepeat ==
    \E n1 \in SizesRepeat[1], n2 \in SizesRepeat[2], n3 \in SizesRepeat[3], n4 \in SizesRepeat[4],
       n5 \in SizesRepeat[5], n6 \in SizesRepeat[6], n7 \in SizesRepeat[7] :
       Start(<<n1, n2, n3, n4, n5, n6, n7>>, MaxRepeatCalls)

FirstDates(df) == {0} \cup { df[i].Date : i \in Runs(df) }

NextRepeat ==
    \/ \E date \in FirstDates(df_loc) : IndexEmpty(date)
    \/ \E date \in FirstDates(df_loc) : Index(date)
    \/ \E row \in {Kind(4, 0), Kind(5, 0)} : Predict(row)

SpecRepeat == InitRepeat /\ [][NextRepeat]_vars

----------------------------------------------------------------------------
(* The claims.  Tiers and rates are restated here from the anchor row and *)
(* the table of the state, and compared with what the call returned.      *)
Abs(x) == IF x < 0 THEN -x ELSE x

Returned == outcome = "ok"

(* the anchor's features, a missing one read as 0 *)
AnchorSun == FillZero(current_day.Sunshine)

AnchorHum == FillZero(current_day.Humidity3pm)

AnchorCld == FillZero(current_day.Cloud3pm)

(* the runs whose rows lie within the given distances of the anchor and *)
(* have the anchor's RainToday                                          *)
Tier(ws, wh, wc) ==
    { i \in Runs(df_loc) :
        /\ df_loc[i].Sunshine # <<>> /\ Abs(df_loc[i].Sunshine[1] - AnchorSun) <= ws
        /\ df_loc[i].Humidity3pm # <<>> /\ Abs(df_loc[i].Humidity3pm[1] - AnchorHum) <= wh
        /\ df_loc[i].Cloud3pm # <<>> /\ Abs(df_loc[i].Cloud3pm[1] - AnchorCld) <= wc
        /\ df_loc[i].RainToday_Binary = current_day.RainToday_Binary }

TightTier == Tier(3, 15, CldTight)

BroadTier == Tier(6, 30, CldBroad)

(* number of rows of a set of runs, and how many of them rained tomorrow *)
Size(S) == Count(df_loc, S)

Rained(S) == ColSum(df_loc, S, "RainTomorrow_Binary")

Whole == Runs(df_loc)

(* p is n / d per cent *)
IsPercentOf(p, n, d) == p.den > 0 /\ d > 0 /\ p.num * d = 100 * n * p.den

(* C1: when the tight tier has at least 10 rows, day 1 is computed from the *)
(* tight matches only: probability 100 x their rain-tomorrow mean and       *)
(* confidence min(count, 100), also when the broad tier qualifies; 12 tight *)
(* matches with 9 rainy tomorrows give 75.0 and 12.                         *)
C1_TightTierUsed ==
    (Returned /\ df_loc # <<>> /\ Size(TightTier) >= 10) =>
        /\ IsPercentOf(preds.day1.prob, Rained(TightTier), Size(TightTier))
        /\ preds.day1.conf = Min(Size(TightTier), 100)
        /\ (Size(TightTier) = 12 /\ Rained(TightTier) = 9) =>
              /\ FracEq(preds.day1.prob, Frac(75, 1))
              /\ preds.day1.conf = 12

(* a table of 20 rows, 12 of them tight with 9 rainy tomorrows, and a broad *)
(* tier that is larger than the tight one and has another rain rate         *)
C1_Witness ==
    /\ Returned /\ op = "index"
    /\ Size(Whole) = 20
    /\ Size(TightTier) = 12 /\ Rained(TightTier) = 9
    /\ Size(BroadTier) = 20 /\ Rained(BroadTier) = 17
    /\ FracEq(preds.day1.prob, Frac(75, 1))
    /\ preds.day1.conf = 12

(* C2: when the tight tier has fewer than 10 rows and the broad tier has at *)
(* least 10, day 1 is 100 x the rain-tomorrow mean over the broad matches   *)
(* with confidence min(broad count, 100).                                   *)
C2_BroadTierReplaces ==
    (Returned /\ Size(TightTier) < 10 /\ Size(BroadTier) >= 10) =>
        /\ IsPercentOf(preds.day1.prob, Rained(BroadTier), Size(BroadTier))
        /\ preds.day1.conf = Min(Size(BroadTier), 100)

(* a tight tier of 1 to 9 rows, a qualifying broad tier, and a broad rate *)
(* that is neither the tight rate nor the rate of the whole table         *)
C2_Witness ==
    /\ Returned
    /\ Size(TightTier) \in 1..9 /\ Size(BroadTier) >= 10
    /\ Rained(TightTier) * Size(BroadTier) # Rained(BroadTier) * Size(TightTier)
    /\ Rained(Whole) * Size(BroadTier) # Rained(BroadTier) * Size(Whole)
    /\ IsPercentOf(preds.day1.prob, Rained(BroadTier), Size(BroadTier))

(* C3: on a non-empty table where both tiers have fewer than 10 rows,      *)
(* confidence is 30 and the probability is 100 x the rain-tomorrow mean of *)
(* the whole table, whatever the few matches say; 5 rows with 2 rainy      *)
(* tomorrows give 40.0 and 30.                                             *)
C3_UnconditionalFallback ==
    (Returned /\ df_loc # <<>> /\ Size(TightTier) < 10 /\ Size(BroadTier) < 10) =>
        /\ preds.day1.conf = 30
        /\ IsPercentOf(preds.day1.prob, Rained(Whole), Size(Whole))
        /\ (Size(Whole) = 5 /\ Rained(Whole) = 2) => FracEq(preds.day1.prob, Frac(40, 1))

(* 5 rows, 2 rainy tomorrows, 3 broad matches none of which rained *)
C3_Witness ==
    /\ Returned /\ op = "index"
    /\ Size(Whole) = 5 /\ Rained(Whole) = 2
    /\ Size(BroadTier) = 3 /\ Rained(BroadTier) = 0
    /\ FracEq(preds.day1.prob, Frac(40, 1))
    /\ preds.day1.conf = 30

(* C4: on an empty table the estimation fails with InsufficientDataError *)
(* and returns no forecast.                                              *)
C4_EmptyTableRaises ==
    (op # None /\ df_loc = <<>>) => outcome = "InsufficientDataError"

(* C5: on a non-empty table every returned probability is within 0..100 *)
(* and every returned confidence is a whole number within 0..100.       *)
InPercentRange(p) == p.den > 0 /\ p.num >= 0 /\ p.num <= 100 * p.den

C5_Ranges ==
    (Returned /\ df_loc # <<>>) =>
        /\ InPercentRange(preds.day1.prob) /\ preds.day1.conf \in 0..100
        /\ InPercentRange(preds.day2.prob) /\ preds.day2.conf \in 0..100

(* more than 100 matches on both days: the confidence is capped *)
C5_Witness ==
    /\ Returned
    /\ Count(df_loc, frame.matches1) > 100 /\ Count(df_loc, frame.matches2) > 100
    /\ preds.day1.conf = 100 /\ preds.day2.conf = 100

(* the runs whose rows lie within the given distances of the day-2 proxy *)
(* features and have RainToday equal to the committed day-1 outcome      *)
Day2Tier(ws, wh, wc) ==
    { i \in Runs(df_loc) :
        /\ df_loc[i].Sunshine # <<>> /\ df_loc[i].Humidity3pm # <<>> /\ df_loc[i].Cloud3pm # <<>>
        /\ Abs(df_loc[i].Sunshine[1] * frame.est.sun.den - frame.est.sun.num)
              <= ws * frame.est.sun.den
        /\ Abs(df_loc[i].Humidity3pm[1] * frame.est.hum.den - frame.est.hum.num)
              <= wh * frame.est.hum.den
        /\ Abs(df_loc[i].Cloud3pm[1] * frame.est.cld.den - frame.est.cld.num)
              <= wc * frame.est.cld.den
        /\ df_loc[i].RainToday_Binary = frame.day1_outcome }

Day2Window == Day2Tier(4, 20, CldDay2)

(* p is the rain-tomorrow rate of the whole table in per cent; the rate of *)
(* an empty table is NaN                                                   *)
IsUnconditionalRate(p) ==
    IF df_loc = <<>> THEN IsNaN(p) ELSE IsPercentOf(p, Rained(Whole), Size(Whole))

(* C6 as claimed: day 2 is a two-tier search, so on a table with rows a   *)
(* day-2 window with fewer than 10 matches is followed by a second,       *)
(* broader day-2 mask before the fallback.                                *)
C6_TwoTierDay2 ==
    (Returned /\ df_loc # <<>> /\ Size(Day2Window) < 10) => Len(frame.searched2) = 2

(* C6 as amended: day 2 evaluates one mask only, the window of 4 h, 20 pp  *)
(* and 3 okta around the proxy features; when it has fewer than 10 matches *)
(* the unconditional fallback is taken at once.                            *)
C6_SingleTierDay2 ==
    Returned =>
        /\ frame.searched2 = <<"mask2">>
        /\ frame.matches2 = Day2Window
        /\ Size(Day2Window) < 10 =>
              /\ IsUnconditionalRate(preds.day2.prob)
              /\ preds.day2.conf = 25

(* the day-2 window has fewer than 10 matches, a window as wide as the *)
(* broad tier of day 1 would have had 10, and the fallback was taken   *)
C6_Witness ==
    /\ Returned
    /\ Size(Day2Window) < 10
    /\ Size(Day2Tier(6, 30, CldDay2)) >= 10
    /\ frame.searched1 = <<"mask1", "mask1_broad">>
    /\ IsUnconditionalRate(preds.day2.prob) /\ preds.day2.conf = 25

(* C7: every row of the table inside the day-2 window with RainToday equal *)
(* to the day-1 outcome is a day-2 match, whether or not it was a day-1    *)
(* match.                                                                  *)
C7_Day2FromFullTable ==
    Returned => \A i \in Runs(df_loc) : i \in Day2Window => i \in frame.matches2

(* a day-2 match that was no day-1 match, the day-1 matches not being empty *)
C7_Witness ==
    /\ Returned
    /\ frame.matches1 # {}
    /\ \E i \in Day2Window : i \notin frame.matches1 /\ i \in frame.matches2

(* the runs holding a row dated d *)
RowsDated(d) == { i \in Runs(df_loc) : df_loc[i].Date <= d /\ d < df_loc[i].Date + df_loc[i].n }

(* the result box of forecast day k, dated k days after the selected date *)
Verified(k, prob, box) ==
    IF RowsDated(sel_date + k) = {}
    THEN ~box.res /\ box.cls = "result-future"
    ELSE \A i \in RowsDated(sel_date + k) :
            /\ box.res
            /\ box.cls = IF (prob.num >= 50 * prob.den) <=> (df_loc[i].RainToday = "Yes")
                         THEN "result-correct" ELSE "result-wrong"

(* C8: forecast day k is shown correct exactly when (probability >= 50)   *)
(* equals the recorded rain of that day, wrong otherwise, and not yet     *)
(* verifiable when the table has no row for that day.                     *)
C8_Verification ==
    (Returned /\ op = "index") =>
        /\ Verified(1, preds.day1.prob, display.day1)
        /\ Verified(2, preds.day2.prob, display.day2)

(* day 1 has no row; day 2 has a dry row and a probability of exactly 50, *)
(* which counts as a forecast of rain                                     *)
C8_Witness ==
    /\ Returned /\ op = "index"
    /\ display.day1.cls = "result-future"
    /\ FracEq(preds.day2.prob, Frac(50, 1))
    /\ display.day2.cls = "result-wrong"

C10_Day2Result ==
    Returned =>
        IF Size(Day2Window) >= 10
        THEN /\ IsPercentOf(preds.day2.prob, Rained(Day2Window), Size(Day2Window))
             /\ preds.day2.conf = Min(Size(Day2Window), 100)
        ELSE /\ IsUnconditionalRate(preds.day2.prob)
             /\ preds.day2.conf = 25

(* 1 to 9 day-2 matches whose rain rate is not that of the table *)
C10_Witness ==
    /\ Returned
    /\ Size(Day2Window) \in 1..9
    /\ Rained(Day2Window) * Size(Whole) # Rained(Whole) * Size(Day2Window)
    /\ preds.day2.conf = 25

(* C11: the committed day-1 outcome is rain exactly when the day-1        *)
(* probability is above 50 (exactly 50 commits to no rain), and every     *)
(* day-2 match has RainToday equal to it, not to the anchor's RainToday.  *)
C11_CommittedOutcome ==
    Returned =>
        /\ frame.day1_outcome = 1 <=>
              (preds.day1.prob.den > 0 /\ preds.day1.prob.num > 50 * preds.day1.prob.den)
        /\ \A i \in frame.matches2 :
              df_loc[i].RainToday_Binary = (IF frame.day1_outcome = 1 THEN 1 ELSE 0)

(* a day-1 probability of exactly 50 on an anchor that rained: the day-2 *)
(* matches are dry days                                                  *)
C11_Witness ==
    /\ Returned
    /\ FracEq(preds.day1.prob, Frac(50, 1))
    /\ current_day.RainToday_Binary = 1
    /\ frame.day1_outcome = 0
    /\ frame.matches2 # {}
    /\ \A i \in frame.matches2 : df_loc[i].RainToday = "No"

(* the day-1 tier that produced the day-1 probability, when one qualified *)
UsedTier == IF Size(TightTier) >= 10 THEN TightTier ELSE BroadTier

(* the sum of an observed feature over the rows of a set of runs *)
RECURSIVE FeatureSum(_, _)
FeatureSum(S, col) ==
    IF S = {} THEN 0
    ELSE LET i == CHOOSE j \in S : TRUE
         IN  df_loc[i].n * df_loc[i][col][1] + FeatureSum(S \ {i}, col)

(* e is the arithmetic mean of a feature over the rows of S *)
IsMeanOver(e, S, col) == e.den > 0 /\ e.num * Size(S) = FeatureSum(S, col) * e.den

(* e is the whole number v *)
IsValue(e, v) == e.den > 0 /\ e.num = v * e.den

(* C12: when a day-1 tier qualified, the day-2 proxy features are the    *)
(* means of sunshine, humidity and cloud over that tier's matches.       *)
C12_ProxyIsMeanOfUsedTier ==
    (Returned /\ Size(UsedTier) >= 10) =>
        /\ IsMeanOver(frame.est.sun, UsedTier, "Sunshine")
        /\ IsMeanOver(frame.est.hum, UsedTier, "Humidity3pm")
        /\ IsMeanOver(frame.est.cld, UsedTier, "Cloud3pm")

(* the broad tier was used, it holds more than the tight one, and the   *)
(* proxy sunshine is its mean, not the anchor's value nor the tight mean *)
C12_Witness ==
    /\ Returned
    /\ Size(TightTier) \in 1..9 /\ Size(BroadTier) >= 10
    /\ IsMeanOver(frame.est.sun, BroadTier, "Sunshine")
    /\ ~IsMeanOver(frame.est.sun, TightTier, "Sunshine")
    /\ ~IsValue(frame.est.sun, AnchorSun)

(* day 1 ended in the total fallback: neither tier has 10 rows *)
TotalFallback == Returned /\ Size(TightTier) < 10 /\ Size(BroadTier) < 10

ProxyIsAnchor ==
    /\ IsValue(frame.est.sun, AnchorSun)
    /\ IsValue(frame.est.hum, AnchorHum)
    /\ IsValue(frame.est.cld, AnchorCld)

(* C13 as claimed: in the total fallback the day-2 proxy features are the *)
(* anchor's own values, also when the broad tier matched 1 to 9 rows.     *)
C13_FallbackReusesAnchor == TotalFallback => ProxyIsAnchor

(* C13 as amended: in the total fallback the proxy features are the       *)
(* anchor's own values only when the broad tier matched no row; when it   *)
(* matched 1 to 9 rows they are the means over those rows.                *)
C13_FallbackProxy ==
    TotalFallback =>
        IF BroadTier = {}
        THEN ProxyIsAnchor
        ELSE /\ IsMeanOver(frame.est.sun, BroadTier, "Sunshine")
             /\ IsMeanOver(frame.est.hum, BroadTier, "Humidity3pm")
             /\ IsMeanOver(frame.est.cld, BroadTier, "Cloud3pm")

(* the fallback was taken with 1 to 9 broad matches on a table with rows, *)
(* and no proxy feature is the anchor's value                             *)
C13_Witness ==
    /\ TotalFallback /\ op = "index"
    /\ Size(BroadTier) \in 1..9
    /\ preds.day1.conf = 30
    /\ ~IsValue(frame.est.sun, AnchorSun)
    /\ ~IsValue(frame.est.hum, AnchorHum)
    /\ ~IsValue(frame.est.cld, AnchorCld)

(* the result box agrees with the row dated d: shown correct or wrong by *)
(* that row's RainToday, or not yet verifiable when there is no such row *)
TruthFrom(d, prob, box) ==
    IF RowsDated(d) = {}
    THEN ~box.res
    ELSE \A i \in RowsDated(d) :
            /\ box.res
            /\ box.cls = "result-correct" <=>
                  ((prob.num >= 50 * prob.den) <=> (df_loc[i].RainToday = "Yes"))

(* C14: forecast day k is verified against RainToday of the row dated k  *)
(* days after the date of the anchor row given to the estimator, for     *)
(* every selected date, also one that has no row of its own.             *)
C14_TruthFromAnchorDate ==
    (Returned /\ op = "index") =>
        /\ TruthFrom(current_day.Date + 1, preds.day1.prob, display.day1)
        /\ TruthFrom(current_day.Date + 2, preds.day2.prob, display.day2)

(* the runs whose rows miss sunshine, humidity or cloud *)
Incomplete ==
    { i \in Runs(df_loc) :
        df_loc[i].Sunshine = <<>> \/ df_loc[i].Humidity3pm = <<>> \/ df_loc[i].Cloud3pm = <<>> }

(* the rows that would be in the tier if a missing feature were a recorded 0 *)
TierWithZeros(ws, wh, wc) ==
    { i \in Runs(df_loc) :
        /\ Abs(FillZero(df_loc[i].Sunshine) - AnchorSun) <= ws
        /\ Abs(FillZero(df_loc[i].Humidity3pm) - AnchorHum) <= wh
        /\ Abs(FillZero(df_loc[i].Cloud3pm) - AnchorCld) <= wc
        /\ df_loc[i].RainToday_Binary = current_day.RainToday_Binary }

(* C15: in every search a missing anchor feature is matched as 0 and a   *)
(* row with a missing feature is in no match set (day-1 tight, day-1     *)
(* broad, day 2), while it still counts in the unconditional rate of the *)
(* fallbacks.                                                            *)
C15_MissingValuePolicy ==
    Returned =>
        /\ frame.sun = AnchorSun /\ frame.hum = AnchorHum /\ frame.cld = AnchorCld
        /\ frame.matches1 = (IF Size(TightTier) >= 10 THEN TightTier ELSE BroadTier)
        /\ Incomplete \cap (TightTier \cup BroadTier \cup frame.matches1 \cup frame.matches2) = {}
        /\ (df_loc # <<>> /\ Size(BroadTier) < 10) =>
              IsPercentOf(preds.day1.prob, Rained(Whole), Size(Whole))
        /\ (df_loc # <<>> /\ Size(frame.matches2) < 10) =>
              IsPercentOf(preds.day2.prob, Rained(Whole), Size(Whole))

(* an anchor without sunshine is matched as 0; the rows without sunshine  *)
(* would bring the tiers and the day-2 window to 10 rows as recorded      *)
(* zeros, but are in no match set, so both days fall back to a rate that  *)
(* counts them                                                            *)
C15_Witness ==
    /\ Returned /\ op = "index"
    /\ current_day.Sunshine = <<>>
    /\ Size(TierWithZeros(3, 15, CldTight)) >= 10
    /\ Size(BroadTier) \in 1..9
    /\ frame.matches1 = BroadTier /\ frame.matches2 # {}
    /\ Size(Incomplete) > 0 /\ Rained(Incomplete) > 0
    /\ preds.day1.conf = 30 /\ preds.day2.conf = 25
    /\ IsPercentOf(preds.day1.prob, Rained(Whole), Size(Whole))

====
